---- MODULE Spec2Model ----
(***************************************************************************)
(* Model of the todo store of minimalist-todo: the module-level cache      *)
(* `todosCache`, the listener set, the localStorage slot, and the          *)
(* operations returned by the useTodos hook (src/src/hooks/useTodos.ts),   *)
(* together with the form handler AddTodoForm.handleSubmit that calls      *)
(* addTodo (second half of the same file) and the function sortTodos that  *)
(* orders the list for display (src/src/components/TodoList.tsx).          *)
(*                                                                         *)
(* JavaScript values are modelled as follows.                              *)
(*   - a string that the code inspects (a title) is a sequence of          *)
(*     characters, so that String.prototype.trim is computed; a character  *)
(*     is a one-character string, or the name of its code point ("U+00A0") *)
(*     when it is not an ASCII character;                                  *)
(*   - null is the sentinel Null; an optional property that is undefined   *)
(*     is a field the input record does not have;                          *)
(*   - an id (crypto.randomUUID()) is a natural number that was never      *)
(*     issued before: version-4 UUIDs are assumed not to collide;          *)
(*   - addTodo reads the clock twice: `created` is the instant new Date()  *)
(*     reads, `now` the value Date.now() returns on the next line; what    *)
(*     the clock may read from one read to the next (the wall clock can be *)
(*     set back) is stated by each specification; ISO-8601 strings are     *)
(*     taken from IsoTable;                                                *)
(*   - the value of `todosCache` is tagged with its JavaScript type,       *)
(*     because JSON.parse may return something that is not an array;       *)
(*   - the localStorage slot is absent (getItem returns null) or holds a   *)
(*     text, which is either the empty string, a text JSON.parse rejects,  *)
(*     or a JSON document;                                                 *)
(*   - a subscriber is a name; what its callback does when it is called    *)
(*     (nothing but read the snapshot, call the store again, unsubscribe)  *)
(*     is given by ListenerKinds.                                          *)
(***************************************************************************)
EXTENDS Integers, Sequences, FiniteSets, TLC

VARIABLES
  todosCache,  \* useTodos.ts:31  the in-memory collection (tagged JS value)
  listeners,   \* useTodos.ts:32  Set<() => void>, in insertion order
  storage,     \* localStorage slot STORAGE_KEY
  mounted,     \* the hook has run at least once (its callbacks exist)
  nextId,      \* number of ids issued so far + 1
  clock,       \* last value read from Date.now()
  fails,       \* number of localStorage.setItem calls that threw
  last         \* the last call: operation, arguments, state before, outcome

vars == <<todosCache, listeners, storage, mounted, nextId, clock, fails, last>>

----------------------------------------------------------------------------
(* Bounds of the model *)

\* todos created during a run of Spec (subscribers, failing writes, corrupt slot)
MaxCreates == 1
\* todos created during a run of SpecOrder (plain todos, reordering)
MaxOrderCreates == 3
\* todos created during a run of SpecFields (all the fields of the inputs)
MaxFieldCreates == 2
\* localStorage.setItem calls that throw during a run
MaxFails == 1
\* length of the lists sortTodos is applied to during a run of SpecSort
MaxSortLen == 3
\* todos created during a run of SpecNotify (subscribers that act when called)
MaxNotifyCreates == 1
\* subscribers registered at a time during a run of SpecNotify
MaxSubs == 3
\* mutations in progress at a time: a subscriber called for a mutation at this
\* depth does not call the store again
MaxDepth == 2

----------------------------------------------------------------------------
(* JavaScript values *)

\* null; an optional property that is undefined is a field the record lacks
Null == "null"

\* the values Date.now() takes during a run: two consecutive milliseconds, far
\* above any list index
ClockInputs == {100, 101}

\* the callbacks useSyncExternalStore registers, one per mounted component
Listeners == {"s1", "s2"}

\* what the callback of a subscriber does when emitChange calls it: s1 and s2
\* only read the snapshot; `again` calls toggleTodo; `leave` calls the function
\* subscribe returned to it; `drop` calls the one subscribe returned to s2
ListenerKinds ==
  [s1 |-> "plain", s2 |-> "plain", again |-> "reenter", leave |-> "leave",
   drop |-> "drop"]

\* the subscribers of SpecNotify
NotifyListeners == DOMAIN ListenerKinds

\* the id `again` passes to toggleTodo: the first id issued
ReenterId == 1

\* new Date(ms).toISOString() for the instants of the model (ms since the epoch)
IsoTable ==
  (  50 :> "1970-01-01T00:00:00.050Z" @@  60 :> "1970-01-01T00:00:00.060Z"
  @@ 100 :> "1970-01-01T00:00:00.100Z" @@ 101 :> "1970-01-01T00:00:00.101Z"
  @@ 102 :> "1970-01-01T00:00:00.102Z" )

ToISOString(ms) == IsoTable[ms]

\* new Date(iso).getTime() for the ISO strings of the model
DateGetTime(iso) == CHOOSE ms \in DOMAIN IsoTable : IsoTable[ms] = iso

\* the code points String.prototype.trim removes: the WhiteSpace and the
\* LineTerminator code points of ECMAScript (TAB, LF, VT, FF, CR, SP, NBSP, the
\* Unicode space separators, LS, PS, ZWNBSP)
WhiteSpace ==
  { "\t", "\n", "U+000B", "\f", "\r", " ", "U+00A0", "U+1680", "U+2000", "U+2001",
    "U+2002", "U+2003", "U+2004", "U+2005", "U+2006", "U+2007", "U+2008",
    "U+2009", "U+200A", "U+2028", "U+2029", "U+202F", "U+205F", "U+3000",
    "U+FEFF" }

\* String.prototype.trim on a sequence of characters
RECURSIVE TrimStart(_)
TrimStart(s) ==
  IF s # <<>> /\ Head(s) \in WhiteSpace THEN TrimStart(Tail(s)) ELSE s

RECURSIVE TrimEnd(_)
TrimEnd(s) ==
  IF s # <<>> /\ s[Len(s)] \in WhiteSpace
  THEN TrimEnd(SubSeq(s, 1, Len(s) - 1)) ELSE s

Trim(s) == TrimEnd(TrimStart(s))

\* tagged JavaScript values held by todosCache
Arr(items) == [t |-> "array", v |-> items]
JsNull == [t |-> "null", v |-> <<>>]
JsObject == [t |-> "object", v |-> <<>>]

IsArray(x) == x.t = "array"

\* `x.length > 0` (useTodos.ts:58): undefined > 0 is false for an object
LengthPositive(x) == IsArray(x) /\ Len(x.v) > 0

----------------------------------------------------------------------------
(* localStorage and JSON *)

Absent == [kind |-> "absent"]
EmptyText == [kind |-> "text", json |-> "empty"]
BadText == [kind |-> "text", json |-> "invalid"]
NullText == [kind |-> "text", json |-> "null"]
ObjectText == [kind |-> "text", json |-> "object"]

\* JSON.stringify of one Todo: the values of its properties in the order of the
\* object literal (id, title, completed, dueDate, category, priority, createdAt,
\* order); each is a string, a boolean, a finite number or null, which JSON
\* keeps as it is
JSONobject(todo) ==
  <<todo.id, todo.title, todo.completed, todo.dueDate, todo.category,
    todo.priority, todo.createdAt, todo.order>>

\* JSON.stringify(todos)
JSONstringify(todos) ==
  [kind |-> "text", json |-> "array",
   elems |-> [i \in 1..Len(todos) |-> JSONobject(todos[i])]]

\* JSON.parse throws a SyntaxError on this text
ParseThrows(s) == s.json = "invalid"

\* the object JSON.parse builds from the text of one Todo
ParseObject(o) ==
  [id |-> o[1], title |-> o[2], completed |-> o[3], dueDate |-> o[4],
   category |-> o[5], priority |-> o[6], createdAt |-> o[7], order |-> o[8]]

\* JSON.parse(stored) for a text it accepts
JSONparse(s) ==
  CASE s.json = "null" -> JsNull
    [] s.json = "object" -> JsObject
    [] s.json = "array" -> Arr([i \in 1..Len(s.elems) |-> ParseObject(s.elems[i])])

\* `if (stored)`: null and the empty string are falsy
Truthy(s) == s.kind = "text" /\ s.json # "empty"

----------------------------------------------------------------------------
(* Inputs of the operations *)

\* CreateTodoInput values (useTodos.ts:11-16); dueDate, category and priority
\* are optional
AddInputs ==
  { [title |-> <<"a">>],
    [title |-> <<>>, dueDate |-> Null, category |-> Null],
    [title |-> <<" ">>, dueDate |-> ToISOString(60), category |-> "work",
     priority |-> "high"] }

\* UpdateTodoInput values without the id (useTodos.ts:21-28); every field is
\* optional
UpdateInputs ==
  { [title |-> <<"a">>],
    [dueDate |-> Null, category |-> Null, priority |-> "medium"],
    [completed |-> TRUE] }

\* state of the form fields of AddTodoForm at submit time (AddTodoForm, useTodos.ts:225-228);
\* dueDate is a Date (its instant) or undefined, category a Category or ''
FormInputs ==
  { [title |-> <<"\t">>, dueDate |-> 60, category |-> "work", priority |-> "medium"],
    [title |-> <<"\t", "a">>, category |-> "", priority |-> "medium"],
    [title |-> <<"a", "\n">>, dueDate |-> 60, category |-> "work", priority |-> "high"],
    [title |-> <<" ", "a", " ", "b", "U+00A0">>, category |-> "", priority |-> "low"] }

\* the plain inputs of Spec and SpecOrder
PlainAdd == { [title |-> <<"a">>] }
PlainUpdate == { [completed |-> TRUE] }

\* ids a caller can pass when at most n todos were created: 0 is never issued
IdInputs(n) == 0..n

\* the ids the store has issued so far: the ids of the todos of the collection
\* and of the todos that were deleted
IssuedIds == 1..(nextId - 1)

\* `x ?? null`
Nullish(input, k) == k \notin DOMAIN input \/ input[k] = Null

\* `input.k !== undefined`
Supplied(input, k) == k \in DOMAIN input

----------------------------------------------------------------------------
(* Array helpers *)

\* Array.prototype.findIndex((t) => t.id === id): 0-based, -1 if there is none
FindIndex(items, id) ==
  IF \E i \in 1..Len(items) : items[i].id = id
  THEN (CHOOSE i \in 1..Len(items) :
          /\ items[i].id = id
          /\ \A j \in 1..(i - 1) : items[j].id # id) - 1
  ELSE -1

\* mutant of SpliceRemove: the element is not removed
SpliceRemoveKeeps(items, i) == items

\* result.splice(i, 1): the array without the element at 0-based index i
SpliceRemove(items, i) == SubSeq(items, 1, i) \o SubSeq(items, i + 2, Len(items))

\* mutant of SpliceInsert: x is inserted after the element at index i
SpliceInsertAfter(items, i, x) ==
  LET k == IF i + 1 > Len(items) THEN Len(items) ELSE i + 1
  IN SubSeq(items, 1, k) \o <<x>> \o SubSeq(items, k + 1, Len(items))

\* result.splice(i, 0, x): x inserted at 0-based index i (clamped to the length)
SpliceInsert(items, i, x) ==
  LET k == IF i > Len(items) THEN Len(items) ELSE i
  IN SubSeq(items, 1, k) \o <<x>> \o SubSeq(items, k + 1, Len(items))

\* mutant of FilterOut: the items after the matching one are dropped with it
FilterOutDropsRest(items, id) ==
  IF FindIndex(items, id) = -1 THEN items
  ELSE SubSeq(items, 1, FindIndex(items, id))

\* Array.prototype.filter((todo) => todo.id !== id)
RECURSIVE FilterOut(_, _)
FilterOut(items, id) ==
  IF items = <<>> THEN <<>>
  ELSE IF Head(items).id # id
       THEN <<Head(items)>> \o FilterOut(Tail(items), id)
       ELSE FilterOut(Tail(items), id)

----------------------------------------------------------------------------
(* Sorting for display (src/src/components/TodoList.tsx) *)

SortOptions == {"order", "dueDate", "priority", "createdAt"}

PRIORITY_ORDER == [high |-> 0, medium |-> 1, low |-> 2]

\* `!todo.dueDate`: null is falsy, an ISO string is truthy
NoDueDate(todo) == todo.dueDate = Null

\* mutant of Compare: a todo without a due date sorts before one that has one
CompareUndatedFirst(sortBy, a, b) ==
  CASE sortBy = "dueDate" ->
         IF NoDueDate(a) /\ NoDueDate(b) THEN 0
         ELSE IF NoDueDate(a) THEN -1
         ELSE IF NoDueDate(b) THEN 1
         ELSE DateGetTime(a.dueDate) - DateGetTime(b.dueDate)
    [] sortBy = "priority" -> PRIORITY_ORDER[a.priority] - PRIORITY_ORDER[b.priority]
    [] sortBy = "createdAt" -> DateGetTime(b.createdAt) - DateGetTime(a.createdAt)
    [] OTHER -> a.order - b.order

\* the comparator sortTodos passes to sort (TodoList.tsx:38-54)
Compare(sortBy, a, b) ==
  CASE sortBy = "dueDate" ->
         IF NoDueDate(a) /\ NoDueDate(b) THEN 0
         ELSE IF NoDueDate(a) THEN 1
         ELSE IF NoDueDate(b) THEN -1
         ELSE DateGetTime(a.dueDate) - DateGetTime(b.dueDate)
    [] sortBy = "priority" -> PRIORITY_ORDER[a.priority] - PRIORITY_ORDER[b.priority]
    [] sortBy = "createdAt" -> DateGetTime(b.createdAt) - DateGetTime(a.createdAt)
    [] OTHER -> a.order - b.order

\* mutant of Insert: x goes before the elements it compares equal to
RECURSIVE InsertBeforeTies(_, _, _)
InsertBeforeTies(sorted, x, sortBy) ==
  IF sorted = <<>> THEN <<x>>
  ELSE LET e == sorted[Len(sorted)]
       IN IF Compare(sortBy, e, x) >= 0
          THEN Append(InsertBeforeTies(SubSeq(sorted, 1, Len(sorted) - 1), x, sortBy), e)
          ELSE Append(sorted, x)

\* one step of Array.prototype.sort, which is stable (ECMAScript 2019): x is
\* inserted into the sorted prefix after every element that does not compare
\* greater than it
RECURSIVE Insert(_, _, _)
Insert(sorted, x, sortBy) ==
  IF sorted = <<>> THEN <<x>>
  ELSE LET e == sorted[Len(sorted)]
       IN IF Compare(sortBy, e, x) > 0
          THEN Append(Insert(SubSeq(sorted, 1, Len(sorted) - 1), x, sortBy), e)
          ELSE Append(sorted, x)

\* Array.prototype.sort with the comparator of sortTodos
RECURSIVE ArraySort(_, _)
ArraySort(items, sortBy) ==
  IF items = <<>> THEN <<>>
  ELSE Insert(ArraySort(SubSeq(items, 1, Len(items) - 1), sortBy),
              items[Len(items)], sortBy)

\* sortTodos(todos, sortBy) (TodoList.tsx:37-55): a sorted copy
sortTodos(todos, sortBy) == ArraySort(todos, sortBy)

----------------------------------------------------------------------------
(* The record of the last call *)

\* op: the call; args: its input, with the 0-based index at which its id
\* argument was found (-1: nowhere) in place of the id; pre, slot and subs:
\* todosCache, the slot and listeners when it was made; raised: it threw;
\* log: what it did, in order
Call(op, args, raised, log) ==
  [op |-> op, args |-> args, pre |-> todosCache, slot |-> storage,
   subs |-> listeners, raised |-> raised, log |-> log]

\* no call yet in this page load
NoCall ==
  [op |-> "load", args |-> <<>>, pre |-> Arr(<<>>), slot |-> Absent,
   subs |-> <<>>, raised |-> FALSE, log |-> <<>>]

\* mutant of Toggled: the toggled item is given the order 0
ToggledResetsOrder(items, id) ==
  [i \in 1..Len(items) |->
     IF items[i].id = id
     THEN [items[i] EXCEPT !.completed = ~@, !.order = 0] ELSE items[i]]

\* todosCache.map(...) of toggleTodo (useTodos.ts:144-146)
Toggled(items, id) ==
  [i \in 1..Len(items) |->
     IF items[i].id = id THEN [items[i] EXCEPT !.completed = ~@] ELSE items[i]]

----------------------------------------------------------------------------
(* A call in progress: persistToStorage and the subscribers it calls *)

\* The module state while a call runs is a record m: cache (todosCache), slot,
\* fails, set (the entries of the Set `listeners`, in insertion order) and log
\* (what was done so far).  depth counts the mutations in progress: 1 for the
\* call itself, 2 for a call made by a subscriber it notifies, and so on.

\* an entry of the Set that was deleted: a loop running over the Set passes it
Empty == "empty"

\* mutant of SetDelete: the entry is cut out and the later entries move up
SetDeleteShifts(set, l) == SelectSeq(set, LAMBDA x : x # l)

\* listeners.delete(l) (useTodos.ts:42): the entry is emptied where it is, the
\* position of the other entries in a running for...of does not change
SetDelete(set, l) == [i \in 1..Len(set) |-> IF set[i] = l THEN Empty ELSE set[i]]

\* the members of the Set, in insertion order
Members(set) == SelectSeq(set, LAMBDA x : x # Empty)

RECURSIVE persistToStorage(_, _, _, _)
RECURSIVE emitFrom(_, _, _)
RECURSIVE Listener(_, _, _)

\* the callback of subscriber l, called for a mutation at this depth
Listener(m, l, depth) ==
  CASE ListenerKinds[l] = "plain" -> m
    [] ListenerKinds[l] = "leave" -> [m EXCEPT !.set = SetDelete(@, l)]
    [] ListenerKinds[l] = "drop" -> [m EXCEPT !.set = SetDelete(@, "s2")]
    [] ListenerKinds[l] = "reenter" ->
         IF depth < MaxDepth
         THEN persistToStorage(m, Toggled(m.cache.v, ReenterId), TRUE, depth + 1)
         ELSE m

\* for (const listener of listeners) listener(), from the i-th entry on: the
\* listener, when called, reads getSnapshot(), which returns todosCache
emitFrom(m, i, depth) ==
  IF i > Len(m.set) THEN m
  ELSE IF m.set[i] = Empty THEN emitFrom(m, i + 1, depth)
  ELSE LET called == [m EXCEPT !.log = Append(@, [e |-> "notify", l |-> m.set[i],
                                                   snapshot |-> m.cache,
                                                   for |-> depth])]
       IN emitFrom(Listener(called, m.set[i], depth), i + 1, depth)

\* mutant of emitChange: the first listener is skipped
emitChangeSkipsFirst(m, depth) == emitFrom(m, 2, depth)

\* emitChange (useTodos.ts:34-38)
emitChange(m, depth) == emitFrom(m, 1, depth)

\* mutant of persistToStorage: the collection is written before it is replaced
persistToStorageWritesFirst(m, todos, ok, depth) ==
  LET written == [m EXCEPT !.slot = IF ok THEN JSONstringify(m.cache.v) ELSE @,
                           !.fails = IF ok THEN @ ELSE @ + 1,
                           !.log = Append(@, [e |-> "write", ok |-> ok, for |-> depth])]
      replaced == [written EXCEPT !.cache = Arr(todos),
                                  !.log = Append(@, [e |-> "replace", for |-> depth,
                                                     snapshot |-> Arr(todos)])]
  IN emitChange(replaced, depth)

\* mutant of persistToStorage: a failed write rolls the collection back
persistToStorageRollsBack(m, todos, ok, depth) ==
  LET replaced == [m EXCEPT !.cache = Arr(todos),
                            !.log = Append(@, [e |-> "replace", for |-> depth,
                                               snapshot |-> Arr(todos)])]
      written == [replaced EXCEPT !.cache = IF ok THEN @ ELSE m.cache,
                                  !.slot = IF ok THEN JSONstringify(todos) ELSE @,
                                  !.fails = IF ok THEN @ ELSE @ + 1,
                                  !.log = Append(@, [e |-> "write", ok |-> ok,
                                                     for |-> depth])]
  IN emitChange(written, depth)

\* mutant of persistToStorage: the subscribers are called first
persistToStorageNotifiesFirst(m, todos, ok, depth) ==
  LET notified == emitChange(m, depth)
      replaced == [notified EXCEPT !.cache = Arr(todos),
                                   !.log = Append(@, [e |-> "replace", for |-> depth,
                                                      snapshot |-> Arr(todos)])]
  IN [replaced EXCEPT !.slot = IF ok THEN JSONstringify(todos) ELSE @,
                      !.fails = IF ok THEN @ ELSE @ + 1,
                      !.log = Append(@, [e |-> "write", ok |-> ok, for |-> depth])]

\* persistToStorage(todos) (useTodos.ts:73-81); ok = localStorage.setItem did
\* not throw
persistToStorage(m, todos, ok, depth) ==
  LET replaced == [m EXCEPT !.cache = Arr(todos),
                            !.log = Append(@, [e |-> "replace", for |-> depth,
                                               snapshot |-> Arr(todos)])]
      written == [replaced EXCEPT !.slot = IF ok THEN JSONstringify(todos) ELSE @,
                                  !.fails = IF ok THEN @ ELSE @ + 1,
                                  !.log = Append(@, [e |-> "write", ok |-> ok,
                                                     for |-> depth])]
  IN emitChange(written, depth)

\* persistToStorage(todos) called by an operation of the hook
Run(todos, ok) ==
  persistToStorage([cache |-> todosCache, slot |-> storage, fails |-> fails,
                    set |-> listeners, log |-> <<>>], todos, ok, 1)

\* an operation of the hook ends with persistToStorage(todos) and returns: the
\* module state and the record of the call
Commit(op, args, todos, ok) ==
  \E m \in {Run(todos, ok)} :
    /\ todosCache' = m.cache
    /\ storage' = m.slot
    /\ fails' = m.fails
    /\ listeners' = Members(m.set)
    /\ last' = Call(op, args, FALSE, m.log)

\* a TypeError leaves the module state as it was
Raise(op, args) ==
  /\ last' = Call(op, args, TRUE, <<>>)
  /\ UNCHANGED <<todosCache, listeners, storage, fails>>

----------------------------------------------------------------------------
(* Initial state: the module has been evaluated, the hook has not run yet *)

InitialStorage == {Absent, EmptyText, BadText, NullText, ObjectText}

InitWith(slots) ==
  /\ todosCache = Arr(<<>>)
  /\ listeners = <<>>
  /\ storage \in slots
  /\ mounted = FALSE
  /\ nextId = 1
  /\ clock = CHOOSE t \in ClockInputs : \A u \in ClockInputs : t <= u
  /\ fails = 0
  /\ last = NoCall

Init == InitWith(InitialStorage)

----------------------------------------------------------------------------
(* Operations *)

\* the value initializeFromStorage (useTodos.ts:56-68) leaves in todosCache
\* when it held cache, in the browser
Loaded(cache) ==
  IF LengthPositive(cache) THEN cache
  ELSE IF Truthy(storage) /\ ~ParseThrows(storage) THEN JSONparse(storage)
  ELSE cache

\* initializeFromStorage (useTodos.ts:56-68)
initializeFromStorage == Loaded(todosCache)

\* getSnapshot() of a store instance that starts now: the module is evaluated
\* (todosCache = [], useTodos.ts:31) and the hook runs once on the current slot
FreshSnapshot == Loaded(Arr(<<>>))

\* a render of a component that calls useTodos() (useTodos.ts:87-93):
\* `todosCache.length` throws a TypeError when todosCache is null
useTodos ==
  /\ IF todosCache.t = "null"
     THEN /\ last' = Call("useTodos", [first |-> ~mounted], TRUE, <<>>)
          /\ UNCHANGED <<todosCache, mounted>>
     ELSE /\ todosCache' = initializeFromStorage
          /\ mounted' = TRUE
          /\ last' = Call("useTodos", [first |-> ~mounted], FALSE, <<>>)
  /\ UNCHANGED <<listeners, storage, nextId, clock, fails>>

\* subscribe(listener), called by useSyncExternalStore (useTodos.ts:40-43)
subscribe(l) ==
  /\ mounted
  /\ listeners' = IF \E i \in 1..Len(listeners) : listeners[i] = l
                  THEN listeners ELSE Append(listeners, l)
  /\ last' = Call("subscribe", [l |-> l], FALSE, <<>>)
  /\ UNCHANGED <<todosCache, storage, mounted, nextId, clock, fails>>

\* the function subscribe returned: listeners.delete(listener)
unsubscribe(l) ==
  /\ mounted
  /\ listeners' = SelectSeq(listeners, LAMBDA x : x # l)
  /\ last' = Call("unsubscribe", [l |-> l], FALSE, <<>>)
  /\ UNCHANGED <<todosCache, storage, mounted, nextId, clock, fails>>

\* the Todo addTodo builds (useTodos.ts:99-108): created is the instant
\* new Date() reads (line 106), now the value of Date.now() (line 107)
NewTodo(input, id, created, now) ==
  [id |-> id,
   title |-> input.title,
   completed |-> FALSE,
   dueDate |-> IF Nullish(input, "dueDate") THEN Null ELSE input.dueDate,
   category |-> IF Nullish(input, "category") THEN Null ELSE input.category,
   priority |-> IF Nullish(input, "priority") THEN "medium" ELSE input.priority,
   createdAt |-> ToISOString(created),
   order |-> now]

\* addTodo(input) (useTodos.ts:98-112) called from op; created and now are the
\* two clock reads, whatever the clock read before
AddTodoCall(op, args, input, created, now, ok) ==
  /\ mounted
  /\ clock' = now
  /\ nextId' = nextId + 1
  /\ IF IsArray(todosCache)
     THEN LET todos == Append(todosCache.v, NewTodo(input, nextId, created, now))
          IN Commit(op, args, todos, ok)
     ELSE Raise(op, args)
  /\ UNCHANGED mounted

addTodo(input, created, now, ok) ==
  AddTodoCall("addTodo", [input |-> input], input, created, now, ok)

\* AddTodoForm.handleSubmit (useTodos.ts:231-248)
handleSubmit(form, created, now, ok) ==
  IF Trim(form.title) = <<>>
  THEN /\ mounted
       /\ last' = Call("handleSubmit", [form |-> form], FALSE, <<>>)
       /\ UNCHANGED <<todosCache, listeners, storage, mounted, nextId, clock, fails>>
  ELSE AddTodoCall("handleSubmit", [form |-> form],
         [title |-> Trim(form.title),
          dueDate |-> IF Supplied(form, "dueDate")
                      THEN ToISOString(form.dueDate) ELSE Null,
          category |-> IF form.category = "" THEN Null ELSE form.category,
          priority |-> form.priority],
         created, now, ok)

\* mutant of ApplyUpdate: a null dueDate or category is taken as not supplied
ApplyUpdateKeepsOnNull(todo, input) ==
  [todo EXCEPT
     !.title = IF Supplied(input, "title") THEN input.title ELSE @,
     !.dueDate = IF Nullish(input, "dueDate") THEN @ ELSE input.dueDate,
     !.category = IF Nullish(input, "category") THEN @ ELSE input.category,
     !.priority = IF Supplied(input, "priority") THEN input.priority ELSE @,
     !.completed = IF Supplied(input, "completed") THEN input.completed ELSE @]

\* the object updateTodo maps a matching todo to (useTodos.ts:120-127)
ApplyUpdate(todo, input) ==
  [todo EXCEPT
     !.title = IF Supplied(input, "title") THEN input.title ELSE @,
     !.dueDate = IF Supplied(input, "dueDate") THEN input.dueDate ELSE @,
     !.category = IF Supplied(input, "category") THEN input.category ELSE @,
     !.priority = IF Supplied(input, "priority") THEN input.priority ELSE @,
     !.completed = IF Supplied(input, "completed") THEN input.completed ELSE @]

\* mutant of Updated: the id is not compared
UpdatedAny(items, id, input) ==
  [i \in 1..Len(items) |-> ApplyUpdate(items[i], input)]

\* todosCache.map(...) of updateTodo (useTodos.ts:118-129)
Updated(items, id, input) ==
  [i \in 1..Len(items) |->
     IF items[i].id = id THEN ApplyUpdate(items[i], input) ELSE items[i]]

\* updateTodo(input) (useTodos.ts:117-131)
updateTodo(id, input, ok) ==
  /\ mounted
  /\ IF IsArray(todosCache)
     THEN LET updated == Updated(todosCache.v, id, input)
          IN Commit("updateTodo",
                    [index |-> FindIndex(todosCache.v, id), input |-> input],
                    updated, ok)
     ELSE Raise("updateTodo", [input |-> input])
  /\ UNCHANGED <<mounted, nextId, clock>>

\* mutant of deleteTodo: an id that no todo has ends the call at once
deleteTodoSkipsUnknown(id, ok) ==
  /\ mounted
  /\ IF IsArray(todosCache)
     THEN IF FindIndex(todosCache.v, id) = -1
          THEN /\ last' = Call("deleteTodo", [index |-> -1], FALSE, <<>>)
               /\ UNCHANGED <<todosCache, listeners, storage, fails>>
          ELSE Commit("deleteTodo", [index |-> FindIndex(todosCache.v, id)],
                      FilterOut(todosCache.v, id), ok)
     ELSE Raise("deleteTodo", <<>>)
  /\ UNCHANGED <<mounted, nextId, clock>>

\* deleteTodo(id) (useTodos.ts:136-138)
deleteTodo(id, ok) ==
  /\ mounted
  /\ IF IsArray(todosCache)
     THEN LET todos == FilterOut(todosCache.v, id)
          IN Commit("deleteTodo", [index |-> FindIndex(todosCache.v, id)], todos, ok)
     ELSE Raise("deleteTodo", <<>>)
  /\ UNCHANGED <<mounted, nextId, clock>>

\* toggleTodo(id) (useTodos.ts:143-148)
toggleTodo(id, ok) ==
  /\ mounted
  /\ IF IsArray(todosCache)
     THEN LET updated == Toggled(todosCache.v, id)
          IN Commit("toggleTodo", [index |-> FindIndex(todosCache.v, id)], updated, ok)
     ELSE Raise("toggleTodo", <<>>)
  /\ UNCHANGED <<mounted, nextId, clock>>

\* mutant of Reordered: the order fields are not rewritten
ReorderedKeepsOrder(items, oldIndex, newIndex) ==
  SpliceInsert(SpliceRemove(items, oldIndex), newIndex, items[oldIndex + 1])

\* the array reorderTodos persists (useTodos.ts:161-169)
Reordered(items, oldIndex, newIndex) ==
  LET removed == items[oldIndex + 1]
      result == SpliceInsert(SpliceRemove(items, oldIndex), newIndex, removed)
  IN [i \in 1..Len(result) |-> [result[i] EXCEPT !.order = i - 1]]

\* mutant of reorderTodos: an unknown id still persists the collection
reorderTodosPersistsUnknown(activeId, overId, ok) ==
  /\ mounted
  /\ IF IsArray(todosCache)
     THEN LET oldIndex == FindIndex(todosCache.v, activeId)
              newIndex == FindIndex(todosCache.v, overId)
              args == [oldIndex |-> oldIndex, newIndex |-> newIndex]
              reordered == IF oldIndex = -1 \/ newIndex = -1
                           THEN todosCache.v
                           ELSE Reordered(todosCache.v, oldIndex, newIndex)
          IN Commit("reorderTodos", args, reordered, ok)
     ELSE Raise("reorderTodos", <<>>)
  /\ UNCHANGED <<mounted, nextId, clock>>

\* reorderTodos(activeId, overId) (useTodos.ts:155-171)
reorderTodos(activeId, overId, ok) ==
  /\ mounted
  /\ IF IsArray(todosCache)
     THEN LET oldIndex == FindIndex(todosCache.v, activeId)
              newIndex == FindIndex(todosCache.v, overId)
              args == [oldIndex |-> oldIndex, newIndex |-> newIndex]
          IN IF oldIndex = -1 \/ newIndex = -1
             THEN /\ last' = Call("reorderTodos", args, FALSE, <<>>)
                  /\ UNCHANGED <<todosCache, listeners, storage, fails>>
             ELSE LET reordered == Reordered(todosCache.v, oldIndex, newIndex)
                  IN Commit("reorderTodos", args, reordered, ok)
     ELSE Raise("reorderTodos", <<>>)
  /\ UNCHANGED <<mounted, nextId, clock>>

\* the page is loaded again: the module is evaluated anew (useTodos.ts:31-32),
\* localStorage keeps its content
newSession ==
  /\ mounted
  /\ todosCache' = Arr(<<>>)
  /\ listeners' = <<>>
  /\ mounted' = FALSE
  /\ last' = NoCall
  /\ UNCHANGED <<storage, nextId, clock, fails>>

----------------------------------------------------------------------------
(* Specifications *)

\* the outcomes of localStorage.setItem the run still allows
Oks == IF fails < MaxFails THEN BOOLEAN ELSE {TRUE}

\* Spec: the store with its subscribers, failing writes and any content of the
\* slot at load time; plain todos; a clock that never reads less than it read
\* before
Next ==
  \/ useTodos
  \/ \E l \in Listeners : subscribe(l)
  \/ \E l \in Listeners : unsubscribe(l)
  \/ \E input \in PlainAdd, created, now \in ClockInputs, ok \in Oks :
       /\ nextId <= MaxCreates
       /\ clock <= created /\ created <= now
       /\ addTodo(input, created, now, ok)
  \/ \E id \in IdInputs(MaxCreates), input \in PlainUpdate, ok \in Oks :
       updateTodo(id, input, ok)
  \/ \E id \in IdInputs(MaxCreates), ok \in Oks : deleteTodo(id, ok)
  \/ \E id \in IdInputs(MaxCreates), ok \in Oks : toggleTodo(id, ok)
  \/ \E a, b \in IdInputs(MaxCreates), ok \in Oks : reorderTodos(a, b, ok)
  \/ newSession

Spec == Init /\ [][Next]_vars

\* SpecOrder: an empty slot, writes that succeed, no subscriber, a clock that
\* never reads less than it read before; plain todos, longer lists; every
\* operation is called with any id the store has issued, reorderTodos with any
\* two of them, equal or not
NextOrder ==
  \/ useTodos
  \/ \E input \in PlainAdd, created, now \in ClockInputs :
       /\ nextId <= MaxOrderCreates
       /\ clock <= created /\ created <= now
       /\ addTodo(input, created, now, TRUE)
  \/ \E id \in IssuedIds, input \in PlainUpdate : updateTodo(id, input, TRUE)
  \/ \E id \in IssuedIds : deleteTodo(id, TRUE)
  \/ \E id \in IssuedIds : toggleTodo(id, TRUE)
  \/ \E a, b \in IssuedIds : reorderTodos(a, b, TRUE)

SpecOrder == InitWith({Absent}) /\ [][NextOrder]_vars

\* SpecFields: an empty slot, writes that succeed, no subscriber, a clock that
\* stands still; inputs that set every field, short lists in creation order
NextFields ==
  \/ useTodos
  \/ \E input \in AddInputs :
       nextId <= MaxFieldCreates /\ addTodo(input, clock, clock, TRUE)
  \/ \E form \in FormInputs :
       nextId <= MaxFieldCreates /\ handleSubmit(form, clock, clock, TRUE)
  \/ \E id \in IdInputs(MaxFieldCreates), input \in UpdateInputs :
       updateTodo(id, input, TRUE)
  \/ \E id \in IdInputs(MaxFieldCreates) : deleteTodo(id, TRUE)
  \/ \E id \in IdInputs(MaxFieldCreates) : toggleTodo(id, TRUE)

SpecFields == InitWith({Absent}) /\ [][NextFields]_vars

\* the due dates and priorities of the todos of SpecSort
SortShapes ==
  [dueDate : {Null, ToISOString(50), ToISOString(60)},
   priority : {"high", "medium", "low"}]

\* the collections of SpecSort: todos created by addTodo within one millisecond,
\* with any due dates and priorities, in creation order
SortInputs ==
  UNION { { [i \in 1..n |->
              [id |-> i, title |-> <<"a">>, completed |-> FALSE,
               dueDate |-> f[i].dueDate, category |-> Null,
               priority |-> f[i].priority,
               createdAt |-> ToISOString(100), order |-> 100]] :
            f \in [1..n -> SortShapes] } : n \in 0..MaxSortLen }

\* a render of TodoList with no filter set (TodoList.tsx:57-91): useTodos()
\* loads the collection (useTodos.ts:87-93), then the memo sorts the snapshot,
\* which is todosCache as the load left it; `todosCache.length` throws a
\* TypeError when todosCache is null, `[...todos]` when the snapshot is not an
\* array
SortCall(sortBy) ==
  /\ IF todosCache.t = "null"
     THEN /\ last' = Call("sortTodos", [sortBy |-> sortBy], TRUE, <<>>)
          /\ UNCHANGED <<todosCache, mounted>>
     ELSE \E todos \in {initializeFromStorage} :
            /\ todosCache' = todos
            /\ mounted' = TRUE
            /\ last' = IF IsArray(todos)
                       THEN [op |-> "sortTodos", args |-> [sortBy |-> sortBy],
                             pre |-> todosCache, slot |-> storage,
                             subs |-> listeners, raised |-> FALSE, log |-> <<>>,
                             result |-> sortTodos(todos.v, sortBy)]
                       ELSE Call("sortTodos", [sortBy |-> sortBy], TRUE, <<>>)
  /\ UNCHANGED <<listeners, storage, nextId, clock, fails>>

\* SpecSort: the list is shown under each sort option.  The slot holds any
\* short collection, and the store either holds it too, or holds the empty
\* collection: before the first render of the page, or after the last todo
\* was deleted by a call whose write failed.  Or no collection was ever
\* written and the slot is absent or holds a text that is not a list.
InitSort ==
  /\ \/ \E todos \in SortInputs :
          /\ storage = JSONstringify(todos)
          /\ todosCache \in {Arr(todos), Arr(<<>>)}
          /\ mounted \in (IF todosCache = Arr(<<>>) THEN BOOLEAN ELSE {TRUE})
          /\ nextId = Len(todos) + 1
     \/ /\ storage \in InitialStorage
        /\ todosCache = Arr(<<>>)
        /\ mounted = FALSE
        /\ nextId = 1
  /\ listeners = <<>>
  /\ clock = 100
  /\ fails = 0
  /\ last = NoCall

NextSort == \E sortBy \in SortOptions : SortCall(sortBy)

SpecSort == InitSort /\ [][NextSort]_vars

\* SpecNotify: subscribers that call the store again or unsubscribe while they
\* are notified; an empty slot, writes that succeed, a clock that reads any
\* value at any read (the wall clock can be set back)
NextNotify ==
  \/ useTodos
  \/ \E l \in NotifyListeners : Len(listeners) < MaxSubs /\ subscribe(l)
  \/ \E input \in PlainAdd, created, now \in ClockInputs :
       nextId <= MaxNotifyCreates /\ addTodo(input, created, now, TRUE)
  \/ \E id \in IdInputs(MaxNotifyCreates) : deleteTodo(id, TRUE)
  \/ \E id \in IdInputs(MaxNotifyCreates) : toggleTodo(id, TRUE)

SpecNotify == InitWith({Absent}) /\ [][NextNotify]_vars

----------------------------------------------------------------------------
(* Properties *)

MutationOps == {"addTodo", "updateTodo", "deleteTodo", "toggleTodo", "reorderTodos"}

\* the last call was made on an array and returned
Returned(op) == last.op = op /\ IsArray(last.pre) /\ ~last.raised

\* the last call was op with an id that was found nowhere in the collection
UnknownId(op) == Returned(op) /\ last.args.index = -1

\* the last call was reorderTodos with both ids found
ReorderFound ==
  Returned("reorderTodos") /\ last.args.oldIndex # -1 /\ last.args.newIndex # -1

\* the last call was reorderTodos with an id that was found nowhere
ReorderUnknown ==
  Returned("reorderTodos") /\ (last.args.oldIndex = -1 \/ last.args.newIndex = -1)

\* the last call mutated the collection
Mutated ==
  /\ last.op \in MutationOps
  /\ IsArray(last.pre)
  /\ ~last.raised
  /\ last.op = "reorderTodos" => ReorderFound

\* the sequence without its k-th element (1-based)
Without(seq, k) ==
  [i \in 1..(Len(seq) - 1) |-> IF i < k THEN seq[i] ELSE seq[i + 1]]

\* a todo, its order field set aside
ZeroOrder(todo) == [todo EXCEPT !.order = 0]

\* how many times the call notified listener l
NotifyCount(l) ==
  Cardinality({i \in 1..Len(last.log) : last.log[i].e = "notify" /\ last.log[i].l = l})

Registered(l) == \E i \in 1..Len(last.subs) : last.subs[i] = l

\* C1: no two items of the collection have the same id, whatever sequence of
\* create, update, delete, toggle and reorder calls led to it from an empty store
C1_UniqueIds ==
  IsArray(todosCache) =>
    \A i, j \in 1..Len(todosCache.v) :
      i # j => todosCache.v[i].id # todosCache.v[j].id

C1_Witness ==
  /\ ReorderFound
  /\ last.args.oldIndex # last.args.newIndex
  /\ Len(todosCache.v) = 3

\* C2: addTodo with a title that is empty or only whitespace leaves the
\* collection unchanged
C2_BlankTitleRejected ==
  (Returned("addTodo") /\ Trim(last.args.input.title) = <<>>) =>
    todosCache = last.pre

\* C3: update, delete and toggle with an id that no item has return normally and
\* leave the collection equal, element by element, to what it was
C3_UnknownIdUnchanged ==
  \A op \in {"updateTodo", "deleteTodo", "toggleTodo"} :
    (last.op = op /\ IsArray(last.pre) /\ (last.raised \/ last.args.index = -1)) =>
      ~last.raised /\ todosCache = last.pre

C3_Witness ==
  /\ UnknownId("updateTodo")
  /\ Len(last.pre.v) = 2
  /\ "title" \in DOMAIN last.args.input
  /\ \E i \in 1..2 : last.pre.v[i].title # last.args.input.title

\* C4: after reorderTodos(a, b) with both ids found, item a is at the index b
\* had, the other items keep their relative order, and every order field is the
\* 0-based index of its item
C4_ReorderMoves ==
  ReorderFound =>
    LET pre == last.pre.v
        post == todosCache.v
        old == last.args.oldIndex + 1
        new == last.args.newIndex + 1
    IN /\ Len(post) = Len(pre)
       /\ ZeroOrder(post[new]) = ZeroOrder(pre[old])
       /\ [i \in 1..(Len(pre) - 1) |-> ZeroOrder(Without(post, new)[i])]
            = [i \in 1..(Len(pre) - 1) |-> ZeroOrder(Without(pre, old)[i])]
       /\ \A i \in 1..Len(post) : post[i].order = i - 1

\* a = b: the second of three items was moved onto itself; the sequence stays
\* (an earlier reorder had put the item 2 in front of the item 1) and the order
\* of the third item, a clock value until then, becomes its index
C4_Witness ==
  /\ ReorderFound
  /\ last.args.oldIndex = 1
  /\ last.args.newIndex = 1
  /\ Len(last.pre.v) = 3
  /\ <<last.pre.v[1].id, last.pre.v[2].id, last.pre.v[3].id>> = <<2, 1, 3>>
  /\ <<todosCache.v[1].id, todosCache.v[2].id, todosCache.v[3].id>> = <<2, 1, 3>>
  /\ last.pre.v[3].order > 2
  /\ todosCache.v[3].order = 2

\* a before b: the first of three items was moved to the place of the third
C4_MovedDown ==
  /\ ReorderFound
  /\ last.args.oldIndex = 0
  /\ last.args.newIndex = 2
  /\ <<last.pre.v[1].id, last.pre.v[2].id, last.pre.v[3].id>> = <<1, 2, 3>>
  /\ <<todosCache.v[1].id, todosCache.v[2].id, todosCache.v[3].id>> = <<2, 3, 1>>

\* a after b: the third of three items was moved to the place of the first
C4_MovedUp ==
  /\ ReorderFound
  /\ last.args.oldIndex = 2
  /\ last.args.newIndex = 0
  /\ <<last.pre.v[1].id, last.pre.v[2].id, last.pre.v[3].id>> = <<1, 2, 3>>
  /\ <<todosCache.v[1].id, todosCache.v[2].id, todosCache.v[3].id>> = <<3, 1, 2>>

\* C5: reorderTodos with an id that no item has changes nothing: the sequence
\* and the order fields stay, nothing is written and no subscriber is called
C5_ReorderUnknownNoop ==
  ReorderUnknown =>
    todosCache = last.pre /\ storage = last.slot /\ last.log = <<>>

C5_Witness ==
  /\ ReorderUnknown
  /\ last.args.oldIndex = 0
  /\ Len(last.subs) = 2

\* C6: a call that mutates the collection calls every registered subscriber
\* exactly once (and nobody else) before it returns
C6_NotifiedOnce ==
  Mutated =>
    \A l \in Listeners : NotifyCount(l) = IF Registered(l) THEN 1 ELSE 0

C6_Witness ==
  /\ Mutated
  /\ last.op = "deleteTodo"
  /\ last.args.index = 0
  /\ Len(last.subs) = 2

\* the write of the last call threw
WriteFailed ==
  \E i \in 1..Len(last.log) : last.log[i].e = "write" /\ ~last.log[i].ok

\* what the call was asked to do is visible in the collection
EffectVisible ==
  LET pre == last.pre.v
      post == todosCache.v
  IN CASE last.op = "addTodo" ->
            /\ Len(post) = Len(pre) + 1
            /\ SubSeq(post, 1, Len(pre)) = pre
            /\ post[Len(post)].title = last.args.input.title
       [] last.op = "reorderTodos" ->
            /\ Len(post) = Len(pre)
            /\ post[last.args.newIndex + 1].id = pre[last.args.oldIndex + 1].id
            /\ \A i \in 1..Len(post) : post[i].order = i - 1
       [] last.args.index = -1 -> post = pre
       [] last.op = "deleteTodo" ->
            /\ Len(post) = Len(pre) - 1
            /\ \A i \in 1..Len(post) : post[i].id # pre[last.args.index + 1].id
       [] last.op = "toggleTodo" ->
            /\ Len(post) = Len(pre)
            /\ post[last.args.index + 1].completed
                 = ~pre[last.args.index + 1].completed
       [] last.op = "updateTodo" ->
            /\ Len(post) = Len(pre)
            /\ \A k \in DOMAIN last.args.input :
                 post[last.args.index + 1][k] = last.args.input[k]

\* C7: when the write to the slot fails, the call still returns normally, the
\* collection is the mutated one and the registered subscribers are called
C7_WriteFailureKeepsMutation ==
  (last.op \in MutationOps /\ WriteFailed) =>
    /\ ~last.raised
    /\ IsArray(todosCache)
    /\ EffectVisible
    /\ \A l \in Listeners : Registered(l) => NotifyCount(l) = 1
    /\ \A i \in 1..Len(last.log) :
         last.log[i].e = "notify" => last.log[i].snapshot = todosCache

C7_Witness ==
  /\ last.op = "toggleTodo"
  /\ WriteFailed
  /\ last.args.index = 0
  /\ Len(last.subs) = 2
  /\ storage = last.slot

\* C8: after the first access with a slot that is absent or does not hold a
\* list, the collection is the empty sequence, and no call ever raises
C8_CorruptSlotIsEmpty ==
  /\ (last.op = "useTodos" /\ last.args.first /\ ~last.raised
        /\ (last.slot.kind = "absent" \/ last.slot.json # "array"))
       => todosCache = Arr(<<>>)
  /\ ~last.raised

\* C9: a render after the first one never replaces the collection with the
\* content of the slot
C9_LoadedOnce ==
  (last.op = "useTodos" /\ ~last.args.first) => todosCache = last.pre

\* C10: addTodo appends the new item, and its order is greater than the order
\* of every item that was already there
C10_OrderAboveAll ==
  Returned("addTodo") =>
    LET pre == last.pre.v
        post == todosCache.v
    IN /\ Len(post) = Len(pre) + 1
       /\ SubSeq(post, 1, Len(pre)) = pre
       /\ \A i \in 1..Len(pre) : post[Len(post)].order > pre[i].order

\* C11: every item of the collection has a title that is not empty and that
\* equals its own trimmed form, whatever store calls were made
C11_TitlesTrimmed ==
  IsArray(todosCache) =>
    \A i \in 1..Len(todosCache.v) :
      /\ todosCache.v[i].title # <<>>
      /\ Trim(todosCache.v[i].title) = todosCache.v[i].title

\* the fields updateTodo may set
UpdatableFields == {"title", "dueDate", "category", "priority", "completed"}

\* the last call was op with an id that an item of the collection has
KnownId(op) == Returned(op) /\ last.args.index # -1

\* C12: updateTodo with a known id sets, on the item with that id, the supplied
\* fields among title, dueDate, category, priority and completed to the
\* supplied values (null included); its other fields, the other items and the
\* positions of the items stay
C12_UpdateFrame ==
  KnownId("updateTodo") =>
    LET pre == last.pre.v
        post == todosCache.v
        k == last.args.index + 1
        input == last.args.input
    IN /\ Len(post) = Len(pre)
       /\ \A i \in 1..Len(pre) : i # k => post[i] = pre[i]
       /\ DOMAIN post[k] = DOMAIN pre[k]
       /\ \A f \in DOMAIN pre[k] :
            post[k][f] = IF f \in UpdatableFields \cap DOMAIN input
                         THEN input[f] ELSE pre[k][f]

\* a due date and a category are cleared on the second of two items
C12_Witness ==
  /\ KnownId("updateTodo")
  /\ last.args.index = 1
  /\ Len(last.pre.v) = 2
  /\ "dueDate" \in DOMAIN last.args.input
  /\ last.args.input.dueDate = Null
  /\ last.pre.v[2].dueDate # Null
  /\ todosCache.v[2].dueDate = Null
  /\ last.pre.v[2].title = todosCache.v[2].title

\* the position in last.pre of the item that is at position j of the collection
\* after the last call (0: the call created it)
Origin(j) ==
  LET n == Len(last.pre.v)
  IN CASE last.op = "addTodo" -> IF j <= n THEN j ELSE 0
       [] last.op = "reorderTodos" ->
            LET old == last.args.oldIndex + 1
                new == last.args.newIndex + 1
                rest == IF j < new THEN j ELSE j - 1
            IN IF j = new THEN old ELSE IF rest < old THEN rest ELSE rest + 1
       [] last.op = "deleteTodo" /\ last.args.index # -1 ->
            IF j < last.args.index + 1 THEN j ELSE j + 1
       [] OTHER -> j

\* C13: a call that mutates the collection leaves the id and createdAt of every
\* item that was there as they were, and its order too unless the call is
\* reorderTodos
C13_IdentityFrame ==
  Mutated =>
    LET pre == last.pre.v
        post == todosCache.v
    IN \A j \in 1..Len(post) :
         Origin(j) # 0 =>
           /\ Origin(j) \in 1..Len(pre)
           /\ post[j].id = pre[Origin(j)].id
           /\ post[j].createdAt = pre[Origin(j)].createdAt
           /\ last.op # "reorderTodos" => post[j].order = pre[Origin(j)].order

\* the first of three items is deleted after a reorder numbered them: the two
\* that remain keep the orders 1 and 2 at the positions 0 and 1
C13_Witness ==
  /\ KnownId("deleteTodo")
  /\ last.args.index = 0
  /\ Len(last.pre.v) = 3
  /\ last.pre.v[2].order = 1
  /\ todosCache.v[1].order = 1
  /\ todosCache.v[1].createdAt # todosCache.v[2].createdAt

\* C14: as long as no write has failed, a store instance that starts on the
\* slot a store has written gets a snapshot equal to that store's snapshot:
\* same items, same field values, same sequence
C14_RoundTrip ==
  (mounted /\ fails = 0 /\ storage.kind = "text" /\ storage.json = "array") =>
    FreshSnapshot = todosCache

\* a page load has read back the item the page before it created and toggled
C14_Witness ==
  /\ last.op = "useTodos"
  /\ last.args.first
  /\ last.pre = Arr(<<>>)
  /\ fails = 0
  /\ IsArray(todosCache)
  /\ Len(todosCache.v) = 1
  /\ todosCache.v[1].completed
  /\ FreshSnapshot = todosCache

\* the last call was sortTodos with this option
Sorted(sortBy) ==
  last.op = "sortTodos" /\ ~last.raised /\ last.args.sortBy = sortBy

\* post holds the items of pre, each once
Permutation(pre, post) ==
  /\ Len(post) = Len(pre)
  /\ \A i \in 1..Len(pre) : \E j \in 1..Len(post) : post[j] = pre[i]
  /\ \A i, j \in 1..Len(post) : i # j => post[i] # post[j]

\* C15: sortTodos by dueDate returns a permutation of its input (the collection
\* the render loaded) in which the items that have a due date come first, in
\* ascending order of their instants, and the items without one come last
C15_SortByDueDate ==
  Sorted("dueDate") =>
    LET r == last.result
    IN /\ Permutation(todosCache.v, r)
       /\ \A i, j \in 1..Len(r) :
            i < j =>
              /\ r[i].dueDate = Null => r[j].dueDate = Null
              /\ (r[i].dueDate # Null /\ r[j].dueDate # Null) =>
                   DateGetTime(r[i].dueDate) <= DateGetTime(r[j].dueDate)

\* the render read from the slot a later date, no date, an earlier date: all
\* three move
C15_Witness ==
  /\ Sorted("dueDate")
  /\ last.pre = Arr(<<>>)
  /\ Len(todosCache.v) = 3
  /\ todosCache.v[1].dueDate = ToISOString(60)
  /\ todosCache.v[2].dueDate = Null
  /\ todosCache.v[3].dueDate = ToISOString(50)
  /\ <<last.result[1].id, last.result[2].id, last.result[3].id>> = <<3, 1, 2>>

\* C16: sortTodos by priority returns a permutation of its input (the collection
\* the render loaded) in which high comes before medium and medium before low,
\* and two items of the same priority are in the order they had in the input
C16_SortByPriority ==
  Sorted("priority") =>
    LET r == last.result
        todos == todosCache.v
    IN /\ Permutation(todos, r)
       /\ \A i, j \in 1..Len(r) :
            i < j =>
              /\ PRIORITY_ORDER[r[i].priority] <= PRIORITY_ORDER[r[j].priority]
              /\ r[i].priority = r[j].priority =>
                   FindIndex(todos, r[i].id) < FindIndex(todos, r[j].id)

\* the store held low, high, low: the two low items follow the high one in
\* their input order
C16_Witness ==
  /\ Sorted("priority")
  /\ last.pre = todosCache
  /\ Len(todosCache.v) = 3
  /\ todosCache.v[1].priority = "low"
  /\ todosCache.v[2].priority = "high"
  /\ todosCache.v[3].priority = "low"
  /\ <<last.result[1].id, last.result[2].id, last.result[3].id>> = <<2, 1, 3>>

\* C17: deleteTodo with a known id leaves exactly the other items, each with the
\* fields it had, in the order they were in
C17_DeleteRemovesOne ==
  KnownId("deleteTodo") =>
    LET pre == last.pre.v
        k == last.args.index + 1
    IN /\ todosCache.v = Without(pre, k)
       /\ \A i \in 1..Len(todosCache.v) : todosCache.v[i].id # pre[k].id

\* the middle one of three items is deleted
C17_Witness ==
  /\ KnownId("deleteTodo")
  /\ last.args.index = 1
  /\ Len(last.pre.v) = 3
  /\ Len(todosCache.v) = 2
  /\ todosCache.v[2] = last.pre.v[3]

\* the positions of the log at which event e of the mutation at depth d stands
Events(e, d) ==
  {i \in 1..Len(last.log) : last.log[i].e = e /\ last.log[i].for = d}

\* how many times subscriber l was called for the mutation at depth d
NotifyCountFor(l, d) ==
  Cardinality({i \in Events("notify", d) : last.log[i].l = l})

\* the subscribers registered when the call was made, by what they do
SubsOfKind(kind) ==
  {i \in 1..Len(last.subs) : ListenerKinds[last.subs[i]] = kind}

\* the call M was made with one subscriber that calls the store again and the
\* others only reading; one mutation was nested in it
OneNested ==
  /\ Mutated
  /\ Cardinality(SubsOfKind("reenter")) = 1
  /\ SubsOfKind("leave") = {} /\ SubsOfKind("drop") = {}
  /\ Cardinality(Events("replace", 2)) = 1
  /\ \A i \in 1..Len(last.log) : last.log[i].for <= 2

\* C18: when a subscriber calls the store while it is notified of a mutation M,
\* every subscriber called for M reads the collection M produced, and every
\* registered subscriber is called once for M and once for the nested mutation
C18_ReentrantSnapshot ==
  OneNested =>
    /\ \A i \in Events("notify", 1) : \A r \in Events("replace", 1) :
         last.log[i].snapshot = last.log[r].snapshot
    /\ \A k \in 1..Len(last.subs) :
         NotifyCountFor(last.subs[k], 1) = 1 /\ NotifyCountFor(last.subs[k], 2) = 1

\* C19: when subscribers unsubscribe themselves or others while a mutation is
\* notified, every subscriber that is registered when the call returns was
\* called exactly once for that mutation
C19_UnsubscribeDuringNotify ==
  Mutated =>
    \A k \in 1..Len(listeners) : NotifyCountFor(listeners[k], 1) = 1

\* the second of three subscribers unsubscribed itself: the third was called
C19_Witness ==
  /\ Mutated
  /\ last.subs = <<"s2", "leave", "s1">>
  /\ listeners = <<"s2", "s1">>
  /\ NotifyCountFor("leave", 1) = 1
  /\ NotifyCountFor("s1", 1) = 1

\* C20: a mutation replaces the collection, then attempts the write, then calls
\* the subscribers: each of them reads the collection the mutation produced,
\* with the write, failed or not, behind it
C20_ReplaceWriteNotify ==
  Mutated =>
    /\ Len(last.log) = 2 + Len(last.subs)
    /\ last.log[1].e = "replace"
    /\ last.log[1].snapshot = todosCache
    /\ last.log[2].e = "write"
    /\ \A i \in 3..Len(last.log) :
         /\ last.log[i].e = "notify"
         /\ last.log[i].snapshot = last.log[1].snapshot

\* two subscribers were called for an addTodo whose write failed
C20_Witness ==
  /\ Mutated
  /\ last.op = "addTodo"
  /\ WriteFailed
  /\ Len(last.subs) = 2
  /\ todosCache # last.pre
  /\ last.log[4].snapshot = todosCache

\* C21: from an empty store, with a clock that does not go backwards and reads
\* values above the length of the collection, the order fields never decrease
\* along the collection, so sortTodos by order returns the collection as it is
C21_SequenceFollowsOrder ==
  IsArray(todosCache) =>
    /\ \A i, j \in 1..Len(todosCache.v) :
         i < j => todosCache.v[i].order <= todosCache.v[j].order
    /\ sortTodos(todosCache.v, "order") = todosCache.v

\* a todo was added after a reorder had moved the second todo to the front: the
\* orders are two indexes and a clock value
C21_Witness ==
  /\ Returned("addTodo")
  /\ Len(todosCache.v) = 3
  /\ todosCache.v[1].id = 2
  /\ todosCache.v[1].order = 0
  /\ todosCache.v[2].order = 1
  /\ todosCache.v[3].order > Len(todosCache.v)
  /\ sortTodos(todosCache.v, "order") = todosCache.v

\* C22: updateTodo, deleteTodo and toggleTodo with an id that no item has still
\* attempt one write, of the unchanged collection, and call every registered
\* subscriber once; reorderTodos with such an id writes nothing and calls nobody
C22_UnknownIdStillPersists ==
  /\ \A op \in {"updateTodo", "deleteTodo", "toggleTodo"} :
       UnknownId(op) =>
         /\ todosCache = last.pre
         /\ Cardinality(Events("write", 1)) = 1
         /\ storage = IF WriteFailed THEN last.slot ELSE JSONstringify(last.pre.v)
         /\ \A l \in Listeners : NotifyCount(l) = IF Registered(l) THEN 1 ELSE 0
  /\ ReorderUnknown =>
       /\ Events("write", 1) = {}
       /\ Events("notify", 1) = {}
       /\ storage = last.slot

\* deleteTodo with an unknown id wrote the collection that an earlier failed
\* write had left out of the slot, and called the two subscribers
C22_Witness ==
  /\ UnknownId("deleteTodo")
  /\ Len(last.pre.v) = 1
  /\ Len(last.subs) = 2
  /\ ~WriteFailed
  /\ storage # last.slot
  /\ storage = JSONstringify(todosCache.v)
  /\ NotifyCount("s1") = 1 /\ NotifyCount("s2") = 1

====
